---- MODULE Spec2Model ----
(***************************************************************************)
(* A model of snap_memories_dl.py: the selector parser (_parse_indices),   *)
(* the HTTP layer (_request_with_fallback, _resolve_media_response), the   *)
(* transcoder swap (_ensure_h264_mp4) and the download loop (download_all) *)
(* with the controller's Stop button.                                      *)
(***************************************************************************)
EXTENDS Integers, Sequences, FiniteSets, TLC

\* ------------------------------------------------------------------ bounds
\* longest selector text explored by SpecParse
MaxLen == 5
\* largest max_n explored by SpecParse
MaxN == 3

\* ----------------------------------------------------------------- helpers
Min(x, y) == IF x < y THEN x ELSE y
Max(x, y) == IF x > y THEN x ELSE y

RECURSIVE Pow2(_)
Pow2(n) == IF n <= 0 THEN 1 ELSE 2 * Pow2(n - 1)

\* sorted(sel): the ascending list of a finite set of integers
RECURSIVE Sorted(_)
Sorted(S) ==
    IF S = {} THEN <<>>
    ELSE LET m == CHOOSE x \in S : \A y \in S : x <= y
         IN <<m>> \o Sorted(S \ {m})

SeqToSet(s) == {s[k] : k \in 1..Len(s)}

\* ------------------------------------------------- _parse_indices (44-67)
\* A text is a sequence of one-character strings.
Digits == {"0", "1", "2", "3", "4", "5", "6", "7", "8", "9"}
Alphabet == {"0", "1", "3", "-", ",", " ", "x"}

DigitVal(c) ==
    CASE c = "0" -> 0 [] c = "1" -> 1 [] c = "2" -> 2 [] c = "3" -> 3
      [] c = "4" -> 4 [] c = "5" -> 5 [] c = "6" -> 6 [] c = "7" -> 7
      [] c = "8" -> 8 [] c = "9" -> 9

\* text.replace(" ", "")
RECURSIVE StripSpaces(_)
StripSpaces(t) ==
    IF t = <<>> THEN <<>>
    ELSE IF Head(t) = " " THEN StripSpaces(Tail(t))
    ELSE <<Head(t)>> \o StripSpaces(Tail(t))

\* index of the first occurrence of c in t, 0 when there is none
FirstIndex(t, c) ==
    IF \E k \in 1..Len(t) : t[k] = c
    THEN CHOOSE k \in 1..Len(t) : t[k] = c /\ \A j \in 1..(k - 1) : t[j] # c
    ELSE 0

\* str.split(','): the parts between the commas, empty parts included
RECURSIVE SplitComma(_)
SplitComma(t) ==
    LET k == FirstIndex(t, ",")
    IN IF k = 0 THEN <<t>>
       ELSE <<SubSeq(t, 1, k - 1)>> \o SplitComma(SubSeq(t, k + 1, Len(t)))

AllDigits(t) == t # <<>> /\ \A k \in 1..Len(t) : t[k] \in Digits

RECURSIVE DecVal(_)
DecVal(t) ==
    IF t = <<>> THEN 0
    ELSE 10 * DecVal(SubSeq(t, 1, Len(t) - 1)) + DigitVal(t[Len(t)])

\* int(s): an optional sign followed by decimal digits; anything else raises
IntOk(t) ==
    \/ AllDigits(t)
    \/ /\ Len(t) >= 2
       /\ t[1] \in {"-", "+"}
       /\ AllDigits(Tail(t))
IntOf(t) ==
    IF t[1] = "-" THEN 0 - DecVal(Tail(t))
    ELSE IF t[1] = "+" THEN DecVal(Tail(t))
    ELSE DecVal(t)

\* lines 53-57 with the swap left out
RangeKeys_NoSwap(a, b, max_n) == {k \in a..b : 1 <= k /\ k <= max_n}
\* lines 53-57: swap a reversed range, keep the k of a..b within 1..max_n
RangeKeys(a, b, max_n) ==
    LET lo == IF a > b THEN b ELSE a
        hi == IF a > b THEN a ELSE b
    IN {k \in lo..hi : 1 <= k /\ k <= max_n}

\* lines 47-66: what one part adds to sel
PartKeys(part, max_n) ==
    IF part = <<>> THEN {}
    ELSE IF FirstIndex(part, "-") # 0
    THEN LET h == FirstIndex(part, "-")
             sa == SubSeq(part, 1, h - 1)
             sb == SubSeq(part, h + 1, Len(part))
         IN IF IntOk(sa) /\ IntOk(sb)
            THEN RangeKeys(IntOf(sa), IntOf(sb), max_n)
            ELSE {}
    ELSE IF IntOk(part) /\ 1 <= IntOf(part) /\ IntOf(part) <= max_n
         THEN {IntOf(part)}
         ELSE {}

\* the for loop of line 46: sel after the parts from k on, starting from sel
RECURSIVE ParseLoop(_, _, _, _)
ParseLoop(parts, k, sel, max_n) ==
    IF k > Len(parts) THEN sel
    ELSE ParseLoop(parts, k + 1, sel \cup PartKeys(parts[k], max_n), max_n)

_parse_indices(text, max_n) ==
    Sorted(ParseLoop(SplitComma(StripSpaces(text)), 1, {}, max_n))

Texts == UNION {[1..n -> Alphabet] : n \in 0..MaxLen}

VARIABLES
    pc,            \* where the worker (or the function under study) stands
    indices_text,  \* the selector text
    p_max, p_out,  \* _parse_indices: max_n and the returned list
    attempts, url, \* _request_with_fallback: its parameters
    a,             \* the loop variable of line 106
    last_exc,      \* 0 for None, else the attempt whose exception it holds
    r,             \* the response the local r is bound to
    trace,         \* the requests and sleeps of the call so far
    requested,     \* positions whose URL (or embedded URL) was requested
    server,        \* the answers the remote end may give to a request
    items,         \* find_links: the media hint of each row, in row order
    limit,         \* 0 for None
    html_exists,   \* whether html/memories_history.html is there
    hasFfmpeg,     \* _has_ffmpeg(): both tools are found
    stop_event,    \* the run's threading.Event
    stop_btn,      \* the Stop button's state
    work,          \* positions of the work list, in order
    i,             \* the loop counter of line 406
    downloaded,    \* positions counted in ok, in order
    ok, fail,      \* the two counters
    failed_out,    \* the failed list handed to the controller
    reasons,       \* why each entry of failed_out was recorded
    attempted,     \* positions that passed the stop check of line 408
    mid_stop,      \* positions a chunk arrived for after a write, stop set
    summary,       \* whether line 487 has logged the counts
    calls,         \* _request_with_fallback calls of the current resolve
    inspected,     \* responses searched for an embedded URL (143-174)
    r1,            \* the first response, once a second request is made
    final_url,     \* what _resolve_media_response returned as final_url
    fs,            \* the files on disk: path -> content
    dest,          \* the destination path of the current item
    chunks,        \* chunks iter_content has yielded for the current item
    written,       \* chunks written to dest
    fs_in,         \* the files when _ensure_h264_mp4 was entered
    conv_res,      \* what _ensure_h264_mp4 returned
    conv_failed,   \* _convert_to_h264_mp4 returned False
    swapped,       \* temp_path.replace(final_path) has succeeded
    start_btn,     \* state of the Start button
    retry_btn,     \* state of the Retry Failed button
    state,         \* main's state dict: which run's objects it holds
    threads,       \* the worker threads started so far
    doc,           \* a wrapper body handed to the URL extraction
    new_url,       \* what the extraction of lines 155-174 found in doc
    ffmpeg,        \* the conversion tool: "missing", "broken" or "ok"
    ffprobe,       \* the probe tool: "missing", "broken" or "ok"
    os_nt,         \* os.name == "nt"
    avail          \* what _ensure_ffmpeg_available returned

parseVars == <<indices_text, p_max, p_out>>
reqVars == <<attempts, url, a, last_exc, r, trace, requested>>
inputVars == <<items, limit, html_exists, hasFfmpeg, server>>
exVars == <<doc, new_url>>
toolVars == <<ffmpeg, ffprobe, os_nt, avail>>
ctlVars == <<stop_event, stop_btn>>
guiVars == <<start_btn, retry_btn, state, threads>>
loopVars == <<work, i, ok, downloaded, fail, failed_out, reasons, attempted,
              mid_stop, summary>>
resVars == <<calls, inspected, r1, final_url>>
fileVars == <<fs, dest, chunks, written>>
convVars == <<fs_in, conv_res, conv_failed, swapped>>
vars == <<pc, parseVars, reqVars, inputVars, exVars, toolVars, ctlVars,
          guiVars, loopVars, resVars, fileVars, convVars>>
\* everything _request_with_fallback leaves alone
reqOuter == <<attempts, url, parseVars, inputVars, exVars, toolVars, ctlVars,
              guiVars, loopVars, resVars, fileVars, convVars>>

\* ------------------------------------- _request_with_fallback (103-130)
\* largest attempts explored by SpecRequest
MaxAttempts == 5

NoResp == [status |-> 0, ctype |-> "", cd |-> "", body |-> "none",
           by |-> "none", att |-> 0, url |-> [src |-> "none", idx |-> 0],
           closed |-> FALSE]
NoUrl == [src |-> "none", idx |-> 0]
ItemUrl(idx) == [src |-> "item", idx |-> idx]

\* lines 97-99 taking any type that names a subtype for media
_looks_like_media_contenttype_Any(ctype) == ctype # ""
\* line 97-99
_looks_like_media_contenttype(ctype) ==
    ctype \in {"image/jpeg", "video/mp4", "video/quicktime",
               "application/octet-stream"}

\* what a wrapper body holds: nothing, a JSON object with a url key, text
\* with an amazonaws URL, or text with a URL ending in a media extension
Bodies == {"none", "json", "s3", "media_url"}
\* Content-Disposition filename suffix, "" when there is none
CDs == {"", ".bin", ".mov"}

\* what a server may answer (headers and body) to one request
FullAnswers ==
    {[status |-> s, ctype |-> "text/html", cd |-> "", body |-> "none"] :
        s \in {404, 429, 503}}
    \cup {[status |-> s, ctype |-> c, cd |-> "", body |-> "none"] :
        s \in {200, 403, 405},
        c \in {"image/jpeg", "video/mp4", "video/quicktime"}}
    \cup {[status |-> s, ctype |-> "application/octet-stream", cd |-> d,
           body |-> "none"] : s \in {200, 403, 405}, d \in CDs}
    \cup {[status |-> s, ctype |-> "text/html", cd |-> "", body |-> b] :
        s \in {200, 403, 405}, b \in Bodies}

\* the answers of the server the runs of download_all talk to
RunAnswers ==
    {[status |-> 503, ctype |-> "text/html", cd |-> "", body |-> "none"]}
    \cup {[status |-> 200, ctype |-> c, cd |-> "", body |-> "none"] :
        c \in {"image/jpeg", "application/octet-stream"}}
    \cup {[status |-> s, ctype |-> "text/html", cd |-> "", body |-> b] :
        s \in {200, 403}, b \in {"none", "json"}}

Resp(ans, method, att, u) ==
    [status |-> ans.status, ctype |-> ans.ctype, cd |-> ans.cd,
     body |-> ans.body, by |-> method, att |-> att, url |-> u,
     closed |-> FALSE]

\* an entry of trace: a request of attempt n with the status it was answered
\* with (0 when it raised), the close of attempt n's GET response, or a
\* sleep of n seconds
EvSt(op, n, st) == [op |-> op, n |-> n, st |-> st]
Ev(op, n) == EvSt(op, n, 0)

\* line 109 falling back to POST on 405 alone
NeedsPost_Only405(status) == status = 405
\* line 109: r.status_code in (405, 403)
NeedsPost(status) == status \in {405, 403}

\* line 116
Retryable(status) == status >= 500 \/ status = 429

\* lines 119 and 126 with the exponent off by one
Backoff_OffByOne(n) == Min(8, Pow2(n))
\* lines 119 and 126: min(8, 2 ** (a - 1))
Backoff(n) == Min(8, Pow2(n - 1))

\* line 106: range(1, max(1, attempts) + 1)
LastAttempt == Max(1, attempts)

\* lines 122-126: the attempt raised (GET, or the POST after a GET)
ReqOnException(evs) ==
    /\ requested' = requested \cup {url.idx}
    /\ last_exc' = a
    /\ trace' = trace \o evs \o <<Ev("sleep", Backoff(a))>>
    /\ a' = a + 1
    /\ pc' = "req_loop"

\* lines 116-121: classify the response the attempt ended with
ReqOnResponse(resp, evs) ==
    /\ requested' = requested \cup {url.idx}
    /\ r' = resp
    /\ UNCHANGED last_exc
    /\ IF Retryable(resp.status)
       THEN /\ trace' = trace \o evs \o <<Ev("sleep", Backoff(a))>>
            /\ a' = a + 1
            /\ pc' = "req_loop"
       ELSE /\ trace' = trace \o evs
            /\ a' = a
            /\ pc' = "req_ret"

\* line 108 raises
ReqGetRaises ==
    /\ pc = "req_loop"
    /\ a <= LastAttempt
    /\ ReqOnException(<<Ev("GET", a)>>)
    /\ UNCHANGED <<r, reqOuter>>

\* line 108 answers with a status other than 403 and 405
ReqGetAnswers ==
    /\ pc = "req_loop"
    /\ a <= LastAttempt
    /\ \E ans \in server :
        /\ ~NeedsPost(ans.status)
        /\ ReqOnResponse(Resp(ans, "GET", a, url),
                         <<EvSt("GET", a, ans.status)>>)
    /\ UNCHANGED reqOuter

\* lines 109-114: the GET answers 403 or 405, it is closed, a POST follows
ReqGetThenPost ==
    /\ pc = "req_loop"
    /\ a <= LastAttempt
    /\ \E gs \in {ans.status : ans \in server} :
        /\ NeedsPost(gs)
        /\ \/ \E ans \in server :
                ReqOnResponse(Resp(ans, "POST", a, url),
                              <<EvSt("GET", a, gs), Ev("close", a),
                                EvSt("POST", a, ans.status)>>)
           \/ /\ ReqOnException(<<EvSt("GET", a, gs), Ev("close", a),
                                  Ev("POST", a)>>)
              /\ r' = [Resp([status |-> gs, ctype |-> "text/html",
                             cd |-> "", body |-> "none"], "GET", a, url)
                       EXCEPT !.closed = TRUE]
    /\ UNCHANGED reqOuter

\* lines 127-130 raising whenever the attempts ran out
ReqLoopEnd_AlwaysRaise ==
    /\ pc = "req_loop"
    /\ a > LastAttempt
    /\ pc' = "req_raise"
    /\ UNCHANGED <<a, last_exc, r, trace, requested, reqOuter>>
\* lines 127-130: the attempts ran out
ReqLoopEnd ==
    /\ pc = "req_loop"
    /\ a > LastAttempt
    /\ pc' = IF last_exc # 0 THEN "req_raise" ELSE "req_ret"
    /\ UNCHANGED <<a, last_exc, r, trace, requested, reqOuter>>

Request == ReqGetRaises \/ ReqGetAnswers \/ ReqGetThenPost \/ ReqLoopEnd

\* ------------------------------------------------------ files and paths
NoPath == [dir |-> "none", idx |-> 0, name |-> "", code |-> 0]
MediaPath(dir, idx, ext) == [dir |-> dir, idx |-> idx, name |-> ext, code |-> 0]
DebugPath(seq, name, code) ==
    [dir |-> "debug", idx |-> seq, name |-> name, code |-> code]
EmptyFs == [q \in {} |-> "none"]
Exists(f, p) == p \in DOMAIN f
Write(f, p, c) == [q \in DOMAIN f \cup {p} |-> IF q = p THEN c ELSE f[q]]
Unlink(f, p) == [q \in DOMAIN f \ {p} |-> f[q]]
\* Path.replace: the source takes the target's place
Replace(f, from, to) ==
    [q \in (DOMAIN f \ {from}) \cup {to} |-> IF q = to THEN f[from] ELSE f[q]]
\* Path.with_suffix
WithSuffix(p, ext) == [p EXCEPT !.name = ext]
MediaFilesOf(f, idx) ==
    {p \in DOMAIN f : p.idx = idx /\ p.dir \in {"images", "videos"}}

\* ------------------------------------------------ download_all (357-506)
\* chunks a body may yield
MaxChunks == 2
\* line 136 and line 178: attempts=3
ResolveAttempts == 3

\* the indexes explored: no download link, or an image, a video, an image
ItemLists == {<<>>, <<"image", "video", "image">>}
Selections == {<<>>, <<"1", ",", "3">>, <<"0", ",", "9">>}
Limits == {0, 2}

idx == work[i]
is_video == items[idx] = "video"

\* lines 377-383 with the limit applied to a selection as well
BuildWork_LimitAlways(its, text, lim) ==
    LET sel == IF text # <<>> THEN _parse_indices(text, Len(its)) ELSE <<>>
        n == IF lim # 0 THEN Min(lim, Len(its)) ELSE Len(its)
    IN IF sel # <<>>
       THEN SelectSeq(sel, LAMBDA k : 1 <= k /\ k <= n)
       ELSE [k \in 1..n |-> k]
\* lines 371-383 keeping a selection that parsed to nothing as the work list
BuildWork_EmptyStays(its, text, lim) ==
    LET total_all == Len(its)
        sel == IF text # <<>> THEN _parse_indices(text, total_all) ELSE <<>>
        n == IF lim # 0 THEN Min(lim, total_all) ELSE total_all
    IN IF text # <<>>
       THEN SelectSeq(sel, LAMBDA k : 1 <= k /\ k <= total_all)
       ELSE [k \in 1..n |-> k]
\* lines 371-383: the positions of the work list
BuildWork(its, text, lim) ==
    LET total_all == Len(its)
        sel == IF text # <<>> THEN _parse_indices(text, total_all) ELSE <<>>
        n == IF sel = <<>> /\ lim # 0 THEN Min(lim, total_all) ELSE total_all
    IN IF sel # <<>>
       THEN SelectSeq(sel, LAMBDA k : 1 <= k /\ k <= total_all)
       ELSE [k \in 1..n |-> k]

\* lines 358-405: up to the loop
Start ==
    /\ pc = "start"
    /\ IF ~html_exists
       THEN /\ pc' = "finally"
            /\ UNCHANGED loopVars
       ELSE /\ work' = BuildWork(items, indices_text, limit)
            /\ pc' = IF work' = <<>> THEN "finally" ELSE "loop"
            /\ i' = 1 /\ ok' = 0 /\ downloaded' = <<>> /\ fail' = 0
            /\ failed_out' = <<>> /\ reasons' = <<>>
            /\ UNCHANGED <<attempted, mid_stop, summary>>
    /\ UNCHANGED <<parseVars, reqVars, inputVars, exVars, toolVars, ctlVars,
                   guiVars, resVars, fileVars, convVars>>

\* lines 406-414 without the stop check
BeginItem_NoStopCheck ==
    /\ pc = "loop"
    /\ IF i > Len(work)
       THEN /\ pc' = "summary"
            /\ UNCHANGED <<attempted, dest>>
       ELSE /\ attempted' = Append(attempted, idx)
            /\ dest' = MediaPath(IF is_video THEN "videos" ELSE "images", idx,
                                 IF is_video THEN ".mp4" ELSE ".jpg")
            /\ pc' = "resolve"
    /\ UNCHANGED <<work, i, ok, downloaded, fail, failed_out, reasons,
                   mid_stop, summary, fs, chunks, written>>
    /\ UNCHANGED <<parseVars, reqVars, inputVars, exVars, toolVars, ctlVars,
                   guiVars, resVars, convVars>>
\* lines 406-414: the loop head, the stop check, the default destination
BeginItem ==
    /\ pc = "loop"
    /\ IF i > Len(work) \/ stop_event
       THEN /\ pc' = "summary"
            /\ UNCHANGED <<attempted, dest>>
       ELSE /\ attempted' = Append(attempted, idx)
            /\ dest' = MediaPath(IF is_video THEN "videos" ELSE "images", idx,
                                 IF is_video THEN ".mp4" ELSE ".jpg")
            /\ pc' = "resolve"
    /\ UNCHANGED <<work, i, ok, downloaded, fail, failed_out, reasons,
                   mid_stop, summary, fs, chunks, written>>
    /\ UNCHANGED <<parseVars, reqVars, inputVars, exVars, toolVars, ctlVars,
                   guiVars, resVars, convVars>>

\* lines 477-481 ending the loop instead of going on
ItemFail_Abort(reason) ==
    /\ fail' = fail + 1
    /\ failed_out' = Append(failed_out, idx)
    /\ reasons' = Append(reasons, reason)
    /\ pc' = "summary"
\* lines 477-481: the except clause of the item
ItemFail(reason) ==
    /\ fail' = fail + 1
    /\ failed_out' = Append(failed_out, idx)
    /\ reasons' = Append(reasons, reason)
    /\ pc' = "after_item"

\* ------------------------------------ _resolve_media_response (132-182)
\* lines 155-174: the URL found in a wrapper body, NoUrl when none is
ExtractUrl(body, n) ==
    IF body = "none" THEN NoUrl ELSE [src |-> body, idx |-> n]

\* line 160: the keys in the order they are tried
Keys == <<"url", "signedUrl", "download_url", "mediaUrl">>
\* what a key of the JSON object holds: nothing, a non-empty string, the
\* empty string, another truthy value (a number, a list, an object), or
\* another falsy one (null, 0, false)
ValKinds == {"absent", "str", "empty", "num", "null"}
\* line 161: data.get(k) is truthy
Truthy(v) == v \in {"str", "num"}
\* a wrapper body: a JSON object, other JSON, or text that is no JSON; with
\* or without a match of the amazonaws pattern and of the media-extension
\* pattern in its text
NoVals == [k \in 1..Len(Keys) |-> "absent"]
NoDoc == [shape |-> "text", vals |-> NoVals, s3 |-> FALSE, media |-> FALSE]
Docs ==
    {[shape |-> "dict", vals |-> f, s3 |-> b1, media |-> b2] :
        f \in [1..Len(Keys) -> ValKinds], b1 \in BOOLEAN, b2 \in BOOLEAN}
    \cup {[shape |-> sh, vals |-> NoVals, s3 |-> b1, media |-> b2] :
        sh \in {"json_other", "text"}, b1 \in BOOLEAN, b2 \in BOOLEAN}
\* what was found: by which search, under which key, holding what
Found(src, key, val) == [src |-> src, key |-> key, val |-> val]
NoFound == Found("none", 0, "absent")

\* lines 158-165: the first key whose value is truthy gives str(data[k])
JsonUrl(d) ==
    IF d.shape = "dict" /\ \E k \in 1..Len(Keys) : Truthy(d.vals[k])
    THEN LET k == CHOOSE k \in 1..Len(Keys) :
                     /\ Truthy(d.vals[k])
                     /\ \A j \in 1..(k - 1) : ~Truthy(d.vals[j])
         IN Found("json", k, d.vals[k])
    ELSE NoFound

\* lines 155-174: JSON first, then the amazonaws pattern, then the
\* media-extension pattern
ExtractNewUrl(d) ==
    IF JsonUrl(d) # NoFound THEN JsonUrl(d)
    ELSE IF d.s3 THEN Found("s3", 0, "str")
    ELSE IF d.media THEN Found("media_url", 0, "str")
    ELSE NoFound

\* the response as the caller holds it; which attempt and which method
\* produced it is not part of it
Returned(resp) == [resp EXCEPT !.att = 0, !.by = "none"]

\* line 136 (and the call of line 416)
ResolveCall ==
    /\ pc = "resolve"
    /\ attempts' = ResolveAttempts
    /\ url' = ItemUrl(idx)
    /\ a' = 1 /\ last_exc' = 0 /\ r' = NoResp /\ trace' = <<>>
    /\ calls' = 1
    /\ pc' = "req_loop"
    /\ UNCHANGED <<requested, inspected, r1, final_url>>
    /\ UNCHANGED <<parseVars, inputVars, exVars, toolVars, ctlVars, guiVars,
                   loopVars, fileVars, convVars>>

\* lines 137-182 after the first request returned
ResolveAfterFirst ==
    /\ pc = "req_ret"
    /\ calls = 1
    /\ IF \/ r.status >= 400 /\ r.status \notin {403, 405}
          \/ _looks_like_media_contenttype(r.ctype)
       THEN /\ final_url' = r.url
            /\ pc' = "validate"
            /\ a' = 0
            /\ r' = Returned(r)
            /\ UNCHANGED <<inspected, r1, url, calls>>
       ELSE /\ inspected' = inspected + 1
            /\ IF ExtractUrl(r.body, idx) # NoUrl
               THEN /\ r1' = [Returned(r) EXCEPT !.closed = TRUE]
                    /\ url' = ExtractUrl(r.body, idx)
                    /\ r' = NoResp
                    /\ calls' = 2
                    /\ a' = 1
                    /\ pc' = "req_loop"
                    /\ UNCHANGED final_url
               ELSE /\ final_url' = r.url
                    /\ pc' = "validate"
                    /\ a' = 0
                    /\ r' = Returned(r)
                    /\ UNCHANGED <<r1, url, calls>>
    /\ last_exc' = 0 /\ trace' = <<>>
    /\ UNCHANGED <<attempts, requested>>
    /\ UNCHANGED <<parseVars, inputVars, exVars, toolVars, ctlVars, guiVars,
                   loopVars, fileVars, convVars>>

\* line 179 searching the second response like the first
ResolveAfterSecond_Follow ==
    /\ pc = "req_ret"
    /\ calls = 2
    /\ IF \/ r.status >= 400 /\ r.status \notin {403, 405}
          \/ _looks_like_media_contenttype(r.ctype)
          \/ ExtractUrl(r.body, idx) = NoUrl
       THEN /\ final_url' = url
            /\ pc' = "validate"
            /\ a' = 0
            /\ r' = Returned(r)
            /\ UNCHANGED <<inspected, r1, url, calls>>
       ELSE /\ inspected' = inspected + 1
            /\ r1' = [Returned(r) EXCEPT !.closed = TRUE]
            /\ url' = ExtractUrl(r.body, idx)
            /\ r' = NoResp
            /\ calls' = 3
            /\ a' = 1
            /\ pc' = "req_loop"
            /\ UNCHANGED final_url
    /\ last_exc' = 0 /\ trace' = <<>>
    /\ UNCHANGED <<attempts, requested>>
    /\ UNCHANGED <<parseVars, inputVars, exVars, toolVars, ctlVars, guiVars,
                   loopVars, fileVars, convVars>>
\* lines 178-179: the second response is returned with new_url
ResolveAfterSecond ==
    /\ pc = "req_ret"
    /\ calls >= 2
    /\ final_url' = url
    /\ pc' = "validate"
    /\ a' = 0 /\ last_exc' = 0 /\ trace' = <<>>
    /\ r' = Returned(r)
    /\ UNCHANGED <<attempts, url, requested, calls, inspected, r1>>
    /\ UNCHANGED <<parseVars, inputVars, exVars, toolVars, ctlVars, guiVars,
                   loopVars, fileVars, convVars>>

\* either request raised: the exception reaches line 477
ResolveRaises ==
    /\ pc = "req_raise"
    /\ ItemFail("network")
    /\ r' = NoResp
    /\ UNCHANGED <<attempts, url, a, last_exc, trace, requested>>
    /\ UNCHANGED <<work, i, ok, downloaded, attempted, mid_stop, summary>>
    /\ UNCHANGED <<parseVars, inputVars, exVars, toolVars, ctlVars, guiVars,
                   resVars, fileVars, convVars>>

\* ---------------------------------- extension of the saved file (69-95)
_guess_ext_from_headers(ctype, cd, fallback) ==
    CASE ctype = "image/jpeg" -> ".jpg"
      [] ctype = "image/png" -> ".png"
      [] ctype \in {"image/heic", "image/heif"} -> ".heic"
      [] ctype = "video/mp4" -> ".mp4"
      [] ctype = "video/quicktime" -> ".mov"
      [] OTHER -> IF cd # "" THEN cd ELSE fallback
\* the index's own links carry no .xxx suffix; a URL taken from a JSON
\* body or matched by the media-extension pattern ends in one
_ext_from_url(u) ==
    CASE u.src = "json" -> ".mp4"
      [] u.src = "media_url" -> ".jpg"
      [] OTHER -> ""
\* lines 442-448
DestFor(d, resp, furl, default_ext) ==
    LET e0 == _guess_ext_from_headers(resp.ctype, resp.cd, default_ext)
        ext == IF e0 \in {".bin", ""} /\ _ext_from_url(furl) # ""
               THEN _ext_from_url(furl) ELSE e0
    IN IF d.name # ext THEN WithSuffix(d, ext) ELSE d

\* lines 417-439: a status >= 400 or a non-media type is dumped and raised
ValidateRejects ==
    /\ pc = "validate"
    /\ \/ r.status >= 400
       \/ ~_looks_like_media_contenttype(r.ctype)
    /\ IF r.status >= 400
       THEN /\ fs' = Write(fs, DebugPath(i, "_status.txt", r.status), "dbg")
            /\ ItemFail("status")
       ELSE /\ fs' = Write(fs, DebugPath(i, ".html", 0), "dbg")
            /\ ItemFail("ctype")
    /\ UNCHANGED <<work, i, ok, downloaded, attempted, mid_stop, summary,
                   dest, chunks, written>>
    /\ UNCHANGED <<parseVars, reqVars, inputVars, exVars, toolVars, ctlVars,
                   guiVars, resVars, convVars>>

\* lines 441-450: the extension is chosen and dest is opened for writing
OpenDest ==
    /\ pc = "validate"
    /\ r.status < 400
    /\ _looks_like_media_contenttype(r.ctype)
    /\ dest' = DestFor(dest, r, final_url, IF is_video THEN ".mp4" ELSE ".jpg")
    /\ \/ /\ fs' = Write(fs, dest', "partial")
          /\ chunks' = 0 /\ written' = 0
          /\ pc' = "stream"
          /\ UNCHANGED <<fail, failed_out, reasons>>
       \/ /\ ItemFail("io")
          /\ UNCHANGED <<fs, chunks, written>>
    /\ UNCHANGED <<work, i, ok, downloaded, attempted, mid_stop, summary>>
    /\ UNCHANGED <<parseVars, reqVars, inputVars, exVars, toolVars, ctlVars,
                   guiVars, resVars, convVars>>

\* lines 455-457 leaving the partial file behind
CancelCleanup_Keep(f, p) == f
\* lines 455-457: close, then unlink dest if it exists
CancelCleanup(f, p) == IF Exists(f, p) THEN Unlink(f, p) ELSE f

\* lines 451-462: iter_content yields a chunk
StreamChunk ==
    /\ pc = "stream"
    /\ chunks < MaxChunks
    /\ chunks' = chunks + 1
    /\ mid_stop' = IF stop_event /\ written >= 1
                   THEN mid_stop \cup {idx} ELSE mid_stop
    /\ IF stop_event
       THEN /\ fs' = CancelCleanup(fs, dest)
            /\ ItemFail("Stopped by user")
            /\ UNCHANGED written
       ELSE \/ /\ written' = written + 1
               /\ UNCHANGED <<fs, pc, fail, failed_out, reasons>>
            \/ /\ ItemFail("io")
               /\ UNCHANGED <<fs, written>>
    /\ UNCHANGED <<work, i, ok, downloaded, attempted, summary, dest>>
    /\ UNCHANGED <<parseVars, reqVars, inputVars, exVars, toolVars, ctlVars,
                   guiVars, resVars, convVars>>

\* line 451: iter_content raises (the connection broke)
StreamRaises ==
    /\ pc = "stream"
    /\ ItemFail("network")
    /\ UNCHANGED <<work, i, ok, downloaded, attempted, mid_stop, summary>>
    /\ UNCHANGED <<parseVars, reqVars, inputVars, exVars, toolVars, ctlVars,
                   guiVars, resVars, fileVars, convVars>>

\* lines 463-467 counting only images at this point
StreamEnd_ImagesOnly ==
    /\ pc = "stream"
    /\ fs' = [fs EXCEPT ![dest] = "media"]
    /\ ok' = IF is_video THEN ok ELSE ok + 1
    /\ downloaded' = IF is_video THEN downloaded ELSE Append(downloaded, idx)
    /\ pc' = IF is_video THEN "conv" ELSE "after_item"
    /\ UNCHANGED <<work, i, fail, failed_out, reasons, attempted, mid_stop,
                   summary, dest, chunks, written>>
    /\ UNCHANGED <<parseVars, reqVars, inputVars, exVars, toolVars, ctlVars,
                   guiVars, resVars, convVars>>
\* lines 463-467: the body ended, the file is closed, the item counted
StreamEnd ==
    /\ pc = "stream"
    /\ fs' = [fs EXCEPT ![dest] = "media"]
    /\ ok' = ok + 1
    /\ downloaded' = Append(downloaded, idx)
    /\ pc' = IF is_video THEN "conv" ELSE "after_item"
    /\ UNCHANGED <<work, i, fail, failed_out, reasons, attempted, mid_stop,
                   summary, dest, chunks, written>>
    /\ UNCHANGED <<parseVars, reqVars, inputVars, exVars, toolVars, ctlVars,
                   guiVars, resVars, convVars>>

\* ------------------------------------------------ the tools (184-282)
\* what _find_ffmpeg picks for a tool: nothing, a file that does not run, or
\* one that does
ToolStates == {"missing", "broken", "ok"}
\* lines 217-219: both tools were found
_has_ffmpeg(f, p) == f # "missing" /\ p # "missing"
\* lines 233-237 and 274-277: -version is run on each tool that was found;
\* TRUE when neither call raised
VersionChecksPass(f, p) == f # "broken" /\ p # "broken"

\* lines 221-282: _ensure_ffmpeg_available, called before a conversion
_ensure_ffmpeg_available ==
    /\ pc = "conv"
    /\ avail = "pending"
    /\ IF VersionChecksPass(ffmpeg, ffprobe)
       THEN /\ avail' = "True"
            /\ UNCHANGED <<ffmpeg, ffprobe, hasFfmpeg>>
       ELSE IF ~os_nt
       THEN /\ avail' = "False"
            /\ UNCHANGED <<ffmpeg, ffprobe, hasFfmpeg>>
       ELSE \* lines 245-282: the download fails, or the archive is
            \* unpacked into bin/ and the tools are looked up again
            \/ /\ avail' = "False"
               /\ UNCHANGED <<ffmpeg, ffprobe, hasFfmpeg>>
            \/ \E f2 \in ToolStates, p2 \in ToolStates :
                  /\ ffmpeg # "missing" => f2 # "missing"
                  /\ ffprobe # "missing" => p2 # "missing"
                  /\ ffmpeg' = f2
                  /\ ffprobe' = p2
                  /\ hasFfmpeg' = _has_ffmpeg(f2, p2)
                  /\ avail' = IF VersionChecksPass(f2, p2) THEN "True"
                              ELSE "False"
    /\ UNCHANGED <<pc, os_nt, items, limit, html_exists, server, exVars,
                   parseVars, reqVars, ctlVars, guiVars, loopVars, resVars,
                   fileVars, convVars>>

\* ------------------------------------------- _ensure_h264_mp4 (318-355)
\* line 325 and line 327
final_path == WithSuffix(dest, ".mp4")
temp_path == WithSuffix(dest, "_tmpconv.mp4")

convOuter == <<parseVars, reqVars, inputVars, exVars, toolVars, ctlVars,
               guiVars, loopVars, resVars, dest, chunks, written>>

\* lines 323-333: no tools, or a stale temp file is removed first
ConvStart ==
    /\ pc = "conv"
    /\ fs_in' = fs
    /\ IF ~hasFfmpeg
       THEN /\ conv_res' = "None"
            /\ pc' = "conv_ret"
            /\ UNCHANGED fs
       ELSE /\ fs' = IF Exists(fs, temp_path) THEN Unlink(fs, temp_path) ELSE fs
            /\ pc' = "conv_run"
            /\ UNCHANGED conv_res
    /\ UNCHANGED <<conv_failed, swapped, convOuter>>

\* lines 337-341 leaving the temp file behind
ConvFailCleanup_Keep(f) == f
\* lines 337-341: the temp file is removed after a failed conversion
ConvFailCleanup(f) == IF Exists(f, temp_path) THEN Unlink(f, temp_path) ELSE f

\* lines 335-342: _convert_to_h264_mp4 writes temp_path if the conversion
\* tool runs (a probe that does not run gives codec "" and a re-encode,
\* 284-298 and 305-311), or fails (having written some of it or none) and
\* None is returned
ConvRun ==
    /\ pc = "conv_run"
    /\ \/ /\ ffmpeg = "ok"
          /\ fs' = Write(fs, temp_path, "h264")
          /\ pc' = "conv_unlink"
          /\ UNCHANGED <<conv_res, conv_failed>>
       \/ /\ conv_failed' = TRUE
          /\ \E junk \in BOOLEAN :
                fs' = ConvFailCleanup(IF junk THEN Write(fs, temp_path, "junk")
                                      ELSE fs)
          /\ conv_res' = "None"
          /\ pc' = "conv_ret"
    /\ UNCHANGED <<fs_in, swapped, convOuter>>

\* lines 346-347: whatever is at final_path is deleted
ConvUnlinkFinal ==
    /\ pc = "conv_unlink"
    /\ fs' = IF Exists(fs, final_path) THEN Unlink(fs, final_path) ELSE fs
    /\ pc' = "conv_replace"
    /\ UNCHANGED <<fs_in, conv_res, conv_failed, swapped, convOuter>>

\* lines 348 and 353-355: the move succeeds, or raises and None is returned
ConvReplace ==
    /\ pc = "conv_replace"
    /\ \/ /\ fs' = Replace(fs, temp_path, final_path)
          /\ swapped' = TRUE
          /\ pc' = "conv_rm_src"
          /\ UNCHANGED conv_res
       \/ /\ conv_res' = "None"
          /\ pc' = "conv_ret"
          /\ UNCHANGED <<fs, swapped>>
    /\ UNCHANGED <<fs_in, conv_failed, convOuter>>

\* lines 350-352: the source is removed unless it is the final path
ConvRemoveSource ==
    /\ pc = "conv_rm_src"
    /\ fs' = IF Exists(fs, dest) /\ dest # final_path
             THEN Unlink(fs, dest) ELSE fs
    /\ conv_res' = "path"
    /\ pc' = "conv_ret"
    /\ UNCHANGED <<fs_in, conv_failed, swapped, convOuter>>

Convert == ConvStart \/ ConvRun \/ ConvUnlinkFinal \/ ConvReplace
           \/ ConvRemoveSource

\* lines 468-476: back in download_all
AfterConv ==
    /\ pc = "conv_ret"
    /\ dest' = IF conv_res = "path" THEN final_path ELSE dest
    /\ pc' = "after_item"
    /\ UNCHANGED <<fs, chunks, written>>
    /\ UNCHANGED <<parseVars, reqVars, inputVars, exVars, toolVars, ctlVars,
                   guiVars, loopVars, resVars, convVars>>

\* lines 483-484: the next iteration; the item's locals are gone
AfterItem ==
    /\ pc = "after_item"
    /\ i' = i + 1
    /\ pc' = "loop"
    /\ attempts' = 0 /\ url' = NoUrl /\ a' = 0 /\ last_exc' = 0
    /\ r' = NoResp /\ trace' = <<>>
    /\ calls' = 0 /\ inspected' = 0 /\ r1' = NoResp /\ final_url' = NoUrl
    /\ dest' = NoPath /\ chunks' = 0 /\ written' = 0
    /\ fs_in' = EmptyFs /\ conv_res' = "pending" /\ conv_failed' = FALSE
    /\ swapped' = FALSE
    /\ UNCHANGED <<requested, fs, work, ok, downloaded, fail, failed_out,
                   reasons, attempted, mid_stop, summary>>
    /\ UNCHANGED <<parseVars, inputVars, exVars, toolVars, ctlVars, guiVars>>

\* lines 486-493: the counts are logged
Summary ==
    /\ pc = "summary"
    /\ summary' = TRUE
    /\ pc' = "finally"
    /\ UNCHANGED <<work, i, ok, downloaded, fail, failed_out, reasons,
                   attempted, mid_stop>>
    /\ UNCHANGED <<parseVars, reqVars, inputVars, exVars, toolVars, ctlVars,
                   guiVars, resVars, fileVars, convVars>>

\* lines 494-506: the buttons are reset and the worker returns
Finally ==
    /\ pc = "finally"
    /\ start_btn' = "normal"
    /\ stop_btn' = "disabled"
    /\ retry_btn' = IF failed_out # <<>> THEN "normal" ELSE "disabled"
    /\ pc' = "returned"
    /\ UNCHANGED <<stop_event, state, threads, parseVars, reqVars, inputVars,
                   exVars, toolVars, loopVars, resVars, fileVars, convVars>>

\* lines 580-583: the Stop button
stop_current ==
    /\ stop_btn = "normal"
    /\ stop_event' = TRUE
    /\ stop_btn' = "disabled"
    /\ UNCHANGED <<pc, guiVars, parseVars, reqVars, inputVars, exVars,
                   toolVars, loopVars, resVars, fileVars, convVars>>

\* ----------------------------------------------------- main (515-606)
DigitChar(d) ==
    CASE d = 0 -> "0" [] d = 1 -> "1" [] d = 2 -> "2" [] d = 3 -> "3"
      [] d = 4 -> "4" [] d = 5 -> "5" [] d = 6 -> "6" [] d = 7 -> "7"
      [] d = 8 -> "8" [] d = 9 -> "9"

\* str(n) for n >= 0: the decimal digits, no leading zero
RECURSIVE IntToText(_)
IntToText(n) ==
    IF n < 10 THEN <<DigitChar(n)>>
    ELSE IntToText(n \div 10) \o <<DigitChar(n % 10)>>

\* sep.join(parts)
RECURSIVE Join(_, _)
Join(parts, sep) ==
    IF parts = <<>> THEN <<>>
    ELSE IF Len(parts) = 1 THEN parts[1]
    ELSE parts[1] \o <<sep>> \o Join(Tail(parts), sep)

\* line 592 joining the positions with a dash
RetryText_Dash(failed) ==
    LET srt == Sorted(SeqToSet(failed))
    IN Join([k \in 1..Len(srt) |-> IntToText(srt[k])], "-")
\* line 592: ",".join(str(i) for i in sorted(set(state["failed"])))
RetryText(failed) ==
    LET srt == Sorted(SeqToSet(failed))
    IN Join([k \in 1..Len(srt) |-> IntToText(srt[k])], ",")

\* most worker threads SpecControl lets main start
MaxRuns == 3
\* positions a worker of SpecControl may record as failed
Positions == {1, 2}

\* line 558: no thread, no Event, the first (empty) failed list, no root
NoState == [thread |-> 0, stop_event |-> 0, failed |-> 0, last_root |-> FALSE]
\* the failed list state["failed"] refers to
StateFailed == IF state.failed = 0 THEN <<>> ELSE threads[state.failed].failed
Running == {w \in 1..Len(threads) : threads[w].alive}

\* lines 560-578 with a valid path: a new Event, a new failed list and a new
\* daemon thread running download_all on them
StartThread ==
    /\ Len(threads) < MaxRuns
    /\ start_btn' = "disabled"
    /\ stop_btn' = "normal"
    /\ threads' = Append(threads,
                         [alive |-> TRUE, stop |-> FALSE, failed |-> <<>>])
    /\ state' = [thread |-> Len(threads) + 1,
                 stop_event |-> Len(threads) + 1,
                 failed |-> Len(threads) + 1,
                 last_root |-> TRUE]
    /\ UNCHANGED retry_btn

ctlOuter == <<pc, p_max, p_out, stop_event, reqVars, inputVars, exVars,
              toolVars, loopVars, resVars, fileVars, convVars>>

\* lines 560-578: the Start button
start_from_path ==
    /\ start_btn = "normal"
    /\ \E valid \in BOOLEAN :
          IF valid THEN StartThread ELSE UNCHANGED <<ctlVars, guiVars>>
    /\ UNCHANGED <<indices_text, ctlOuter>>

\* lines 580-583: the Stop button, on the Event state["stop_event"] holds
stop_current_of_state ==
    /\ stop_btn = "normal"
    /\ threads' = IF state.stop_event = 0 THEN threads
                  ELSE [threads EXCEPT ![state.stop_event].stop = TRUE]
    /\ stop_btn' = "disabled"
    /\ UNCHANGED <<start_btn, retry_btn, state, indices_text, ctlOuter>>

\* lines 585-594: the Retry Failed button
retry_failed ==
    /\ retry_btn = "normal"
    /\ IF StateFailed = <<>> \/ ~state.last_root
       THEN UNCHANGED <<indices_text, stop_btn, guiVars>>
       ELSE /\ indices_text' = RetryText(StateFailed)
            /\ \E valid \in BOOLEAN :
                  IF valid THEN StartThread
                  ELSE UNCHANGED <<stop_btn, guiVars>>
    /\ UNCHANGED ctlOuter

\* lines 477-481 as the controller sees them: a running worker appends a
\* position, above those it has appended, to the failed list it was given
WorkerFails ==
    /\ \E w \in Running, p \in Positions :
        /\ \A k \in 1..Len(threads[w].failed) : threads[w].failed[k] < p
        /\ threads' = [threads EXCEPT ![w].failed = Append(@, p)]
    /\ UNCHANGED <<start_btn, retry_btn, state, stop_btn, indices_text,
                   ctlOuter>>

\* lines 494-506 as the controller sees them: a worker (done, stopped or
\* returning early) resets the buttons and ends
WorkerReturns ==
    /\ \E w \in Running :
        /\ threads' = [threads EXCEPT ![w].alive = FALSE]
        /\ retry_btn' = IF threads[w].failed # <<>> THEN "normal"
                        ELSE "disabled"
    /\ start_btn' = "normal"
    /\ stop_btn' = "disabled"
    /\ UNCHANGED <<state, indices_text, ctlOuter>>

\* ------------------------------------------------------- specifications
ParseIdle == indices_text = <<>> /\ p_max = 0 /\ p_out = <<>>
ReqIdle ==
    /\ attempts = 0 /\ url = NoUrl /\ a = 0 /\ last_exc = 0
    /\ r = NoResp /\ trace = <<>> /\ requested = {}
LoopIdle ==
    /\ work = <<>> /\ i = 0 /\ ok = 0 /\ downloaded = <<>> /\ fail = 0
    /\ failed_out = <<>> /\ reasons = <<>> /\ attempted = <<>>
    /\ mid_stop = {} /\ summary = FALSE
ResIdle == calls = 0 /\ inspected = 0 /\ r1 = NoResp /\ final_url = NoUrl
FileIdle == fs = EmptyFs /\ dest = NoPath /\ chunks = 0 /\ written = 0
ConvIdle ==
    /\ fs_in = EmptyFs /\ conv_res = "pending" /\ conv_failed = FALSE
    /\ swapped = FALSE
InputIdle ==
    /\ items = <<>> /\ limit = 0 /\ html_exists = TRUE /\ hasFfmpeg = TRUE
    /\ server = {}
CtlIdle == stop_event = FALSE /\ stop_btn = "disabled"
ExIdle == doc = NoDoc /\ new_url = NoFound
\* both tools found and runnable, or the conversion tool not found; no call
\* of _ensure_ffmpeg_available made
ToolsDefault ==
    /\ ffmpeg = IF hasFfmpeg THEN "ok" ELSE "missing"
    /\ ffprobe = "ok"
    /\ os_nt = FALSE
    /\ avail = "pending"
\* the window while its first run is under way: start_from_path has
\* disabled Start, Retry Failed is as line 600 left it
GuiIdle ==
    /\ start_btn = "disabled" /\ retry_btn = "disabled"
    /\ state = NoState /\ threads = <<>>

\* Spec: one run of download_all on its worker thread, as start_from_path
\* (560-578) starts it, with the Stop button beside it
Init ==
    /\ pc = "start"
    /\ indices_text \in Selections
    /\ p_max = 0 /\ p_out = <<>>
    /\ items \in ItemLists
    /\ limit \in Limits
    /\ html_exists \in BOOLEAN
    /\ hasFfmpeg \in BOOLEAN
    /\ server = RunAnswers
    /\ stop_event = FALSE
    /\ stop_btn = "normal"
    /\ ReqIdle /\ LoopIdle /\ ResIdle /\ FileIdle /\ ConvIdle /\ GuiIdle
    /\ ExIdle /\ ToolsDefault

Next ==
    \/ Start
    \/ BeginItem
    \/ ResolveCall
    \/ Request
    \/ ResolveAfterFirst
    \/ ResolveAfterSecond
    \/ ResolveRaises
    \/ ValidateRejects
    \/ OpenDest
    \/ StreamChunk
    \/ StreamRaises
    \/ StreamEnd
    \/ Convert
    \/ AfterConv
    \/ AfterItem
    \/ Summary
    \/ Finally
    \/ stop_current

Spec == Init /\ [][Next]_vars

\* SpecParse: _parse_indices alone, on every text up to MaxLen
ParseInit ==
    /\ pc = "parse_call"
    /\ indices_text \in Texts
    /\ p_max \in 0..MaxN
    /\ p_out = <<>>
    /\ ReqIdle /\ LoopIdle /\ ResIdle /\ FileIdle /\ ConvIdle /\ InputIdle
    /\ CtlIdle /\ GuiIdle /\ ExIdle /\ ToolsDefault

ParseCall ==
    /\ pc = "parse_call"
    /\ p_out' = _parse_indices(indices_text, p_max)
    /\ pc' = "parse_done"
    /\ UNCHANGED <<indices_text, p_max, reqVars, inputVars, exVars, toolVars,
                   ctlVars, guiVars, loopVars, resVars, fileVars, convVars>>

ParseNext == ParseCall

SpecParse == ParseInit /\ [][ParseNext]_vars

\* the answers of a server that never asks for the POST fallback
PlainAnswers == {ans \in FullAnswers : ~NeedsPost(ans.status)}

\* SpecRequest: one call of _request_with_fallback: with up to the three
\* attempts its callers ask for against a server that may answer anything,
\* and with up to MaxAttempts against one that never answers 403 or 405
RequestInit ==
    /\ pc = "req_loop"
    /\ \/ attempts \in 1..ResolveAttempts /\ server = FullAnswers
       \/ attempts \in 1..MaxAttempts /\ server = PlainAnswers
    /\ url = ItemUrl(1)
    /\ a = 1 /\ last_exc = 0 /\ r = NoResp /\ trace = <<>> /\ requested = {}
    /\ items = <<>> /\ limit = 0 /\ html_exists = TRUE /\ hasFfmpeg = TRUE
    /\ ParseIdle /\ LoopIdle /\ ResIdle /\ FileIdle /\ ConvIdle /\ CtlIdle
    /\ GuiIdle /\ ExIdle /\ ToolsDefault

RequestNext == Request

SpecRequest == RequestInit /\ [][RequestNext]_vars

\* SpecConvert: one call of _ensure_h264_mp4 on a downloaded video, for each
\* suffix the download can have given it, with or without files left at
\* the temp and final paths by an earlier run, for each state of the two
\* tools, with or without a call of _ensure_ffmpeg_available before it
SrcSuffixes == {".mp4", ".mov", ".jpg", ".bin"}
ConvertInit ==
    /\ pc = "conv"
    /\ items = <<"video">> /\ limit = 0 /\ html_exists = TRUE
    /\ server = {}
    /\ ffmpeg \in ToolStates
    /\ ffprobe \in ToolStates
    /\ hasFfmpeg = _has_ffmpeg(ffmpeg, ffprobe)
    /\ os_nt \in BOOLEAN
    /\ avail = "pending"
    /\ work = <<1>> /\ i = 1 /\ ok = 1 /\ downloaded = <<1>> /\ fail = 0
    /\ failed_out = <<>> /\ reasons = <<>> /\ attempted = <<1>>
    /\ mid_stop = {} /\ summary = FALSE
    /\ dest \in {MediaPath("videos", 1, e) : e \in SrcSuffixes}
    /\ \E stale \in SUBSET {temp_path, final_path} \ {{dest}, {dest, temp_path}} :
          fs = [q \in stale \cup {dest} |-> IF q = dest THEN "media" ELSE "old"]
    /\ chunks = 0 /\ written = 0
    /\ ParseIdle /\ ReqIdle /\ ResIdle /\ ConvIdle /\ CtlIdle /\ GuiIdle
    /\ ExIdle

ConvertNext == _ensure_ffmpeg_available \/ Convert

SpecConvert == ConvertInit /\ [][ConvertNext]_vars

\* SpecExtract: the URL extraction of _resolve_media_response alone, on
\* every wrapper body of Docs
ExtractInit ==
    /\ pc = "extract_call"
    /\ doc \in Docs
    /\ new_url = NoFound
    /\ ParseIdle /\ ReqIdle /\ LoopIdle /\ ResIdle /\ FileIdle /\ ConvIdle
    /\ InputIdle /\ CtlIdle /\ GuiIdle /\ ToolsDefault

ExtractCall ==
    /\ pc = "extract_call"
    /\ new_url' = ExtractNewUrl(doc)
    /\ pc' = "extract_done"
    /\ UNCHANGED <<doc, parseVars, reqVars, inputVars, toolVars, ctlVars,
                   guiVars, loopVars, resVars, fileVars, convVars>>

ExtractNext == ExtractCall

SpecExtract == ExtractInit /\ [][ExtractNext]_vars

\* SpecControl: main's window from its construction on, with the Start,
\* Stop and Retry Failed buttons and the worker threads they start; a worker
\* is followed only in what the controller shares with it
ControlInit ==
    /\ pc = "mainloop"
    /\ start_btn = "normal"
    /\ stop_btn = "disabled"
    /\ retry_btn = "disabled"
    /\ state = NoState
    /\ threads = <<>>
    /\ stop_event = FALSE
    /\ ParseIdle /\ ReqIdle /\ LoopIdle /\ ResIdle /\ FileIdle /\ ConvIdle
    /\ InputIdle /\ ExIdle /\ ToolsDefault

ControlNext ==
    \/ start_from_path
    \/ stop_current_of_state
    \/ retry_failed
    \/ WorkerFails
    \/ WorkerReturns

SpecControl == ControlInit /\ [][ControlNext]_vars

\* --- claim C5 ---------------------------------------------------------------
\* A token is well formed when it is an integer, or a-b with a and b integers
\* (split at the first hyphen, as the code reads it).
TokInt(tok) == FirstIndex(tok, "-") = 0 /\ IntOk(tok)
TokRange(tok) ==
    /\ FirstIndex(tok, "-") # 0
    /\ IntOk(SubSeq(tok, 1, FirstIndex(tok, "-") - 1))
    /\ IntOk(SubSeq(tok, FirstIndex(tok, "-") + 1, Len(tok)))
TokNames(tok, k) ==
    \/ TokInt(tok) /\ IntOf(tok) = k
    \/ /\ TokRange(tok)
       /\ LET x == IntOf(SubSeq(tok, 1, FirstIndex(tok, "-") - 1))
              y == IntOf(SubSeq(tok, FirstIndex(tok, "-") + 1, Len(tok)))
          IN (x <= k /\ k <= y) \/ (y <= k /\ k <= x)
Named(text, max_n) ==
    LET toks == SplitComma(StripSpaces(text))
    IN {k \in 1..max_n : \E j \in 1..Len(toks) : TokNames(toks[j], k)}

TimesFailed(n) == Cardinality({k \in 1..Len(failed_out) : failed_out[k] = n})

ItemPcs == {"resolve", "req_loop", "req_ret", "req_raise", "validate",
            "stream", "conv", "conv_run", "conv_unlink", "conv_replace",
            "conv_rm_src", "conv_ret", "after_item"}
Begun == SeqToSet(attempted)
Completed == Begun \ (IF pc \in ItemPcs THEN {idx} ELSE {})

\* C2: in every step taken with the stop event set, the event stays set, no
\* further item passes the stop check, nothing is requested and no media file
\* exists for an item that had not begun, and the media files of the items
\* already completed stay as they are.
C2_StopIsFinal ==
    [][stop_event =>
        /\ stop_event'
        /\ attempted' = attempted
        /\ \A n \in 1..Len(items) :
              n \notin Begun => n \notin requested' /\ MediaFilesOf(fs', n) = {}
        /\ \A n \in Completed :
              /\ MediaFilesOf(fs', n) = MediaFilesOf(fs, n)
              /\ \A p \in MediaFilesOf(fs, n) : fs'[p] = fs[p]]_vars

\* a stopped run that returned with a saved file and an item never begun
C2_Witness ==
    /\ pc = "returned"
    /\ stop_event
    /\ ok >= 1
    /\ Len(attempted) < Len(work)
    /\ \E n \in Begun : MediaFilesOf(fs, n) # {}

\* --- claim C3 ---------------------------------------------------------------
\* C3: the items that passed the stop check are always a prefix of the work
\* list (each once, in order), and once the loop is over with the stop event
\* not set they are the whole work list, whatever failed on the way.
C3_FailuresDontAbort ==
    /\ Len(attempted) <= Len(work)
    /\ \A k \in 1..Len(attempted) : attempted[k] = work[k]
    /\ (pc \in {"summary", "finally", "returned"} /\ ~stop_event)
          => attempted = work

\* two items failed (a content-type mismatch and an I/O error among them)
\* and the third was still downloaded
C3_Witness ==
    /\ pc = "returned"
    /\ ~stop_event
    /\ work = <<1, 2, 3>>
    /\ failed_out = <<1, 2>>
    /\ "ctype" \in SeqToSet(reasons)
    /\ "io" \in SeqToSet(reasons)
    /\ ok = 1

\* --- claim C4 ---------------------------------------------------------------
Selected == Named(indices_text, Len(items))

\* C4: with a selector that names a non-empty set S of positions, only
\* positions of S are requested or get a media file, the items begun are a
\* prefix of S in ascending order, and a run that was not stopped has begun
\* exactly the |S| items of S, whatever the limit.
C4_SelectionExact ==
    (html_exists /\ indices_text # <<>> /\ Selected # {}) =>
        /\ requested \subseteq Selected
        /\ \A n \in 1..Len(items) :
              n \notin Selected => MediaFilesOf(fs, n) = {}
        /\ attempted = SubSeq(Sorted(Selected), 1, Len(attempted))
        /\ (pc = "returned" /\ ~stop_event) =>
              /\ attempted = Sorted(Selected)
              /\ Len(attempted) = Cardinality(Selected)

\* the selection "1,3" under a limit of 2: items 1 and 3 processed, 2 skipped
C4_Witness ==
    /\ pc = "returned"
    /\ ~stop_event
    /\ indices_text = <<"1", ",", "3">>
    /\ limit = 2
    /\ attempted = <<1, 3>>
    /\ requested = {1, 3}
    /\ ok = 2

\* --- claim C6 ---------------------------------------------------------------
\* C6: a call whose attempts all ended in a retryable status, none raising,
\* returns (it does not raise) the response of the last attempt, still with
\* its retryable status; and an item whose resolved response has a retryable
\* status is recorded as a status failure.
C6_ExhaustedReturnsLast ==
    /\ (pc \in {"req_ret", "req_raise"} /\ a > LastAttempt /\ last_exc = 0)
          => /\ pc = "req_ret"
             /\ r.att = LastAttempt
             /\ Retryable(r.status)
    /\ (pc = "after_item" /\ r # NoResp /\ Retryable(r.status))
          => /\ failed_out # <<>>
             /\ failed_out[Len(failed_out)] = idx
             /\ reasons[Len(reasons)] = "status"
             /\ TimesFailed(idx) = 1

\* three 503 answers in a row: the third is returned and dumped as a
\* status failure
C6_Witness ==
    /\ pc = "after_item"
    /\ r.status = 503
    /\ reasons # <<>>
    /\ reasons[Len(reasons)] = "status"
    /\ Exists(fs, DebugPath(i, "_status.txt", 503))

\* --- claim C7 ---------------------------------------------------------------
\* min(8, 2^(n-1)) written out
C7_Delay(n) == CASE n = 1 -> 1 [] n = 2 -> 2 [] n = 3 -> 4 [] OTHER -> 8
Gets == {k \in 1..Len(trace) : trace[k].op = "GET"}

\* C7: a call makes at most `attempts` GETs; every sleep follows the request
\* of some attempt n and lasts min(8, 2^(n-1)) seconds; every GET but the
\* first comes right after the sleep of the attempt before it; and a return
\* with a non-retryable status comes right after the request that got it,
\* with nothing more to do.
C7_BackoffSchedule ==
    /\ Cardinality(Gets) <= attempts
    /\ \A k \in 1..Len(trace) :
          trace[k].op = "sleep" =>
              /\ k > 1
              /\ trace[k - 1].op \in {"GET", "POST"}
              /\ trace[k].n = C7_Delay(trace[k - 1].n)
    /\ \A k \in Gets :
          IF trace[k].n = 1 THEN k = 1
          ELSE /\ k > 1
               /\ trace[k - 1] = Ev("sleep", C7_Delay(trace[k].n - 1))
    /\ (pc = "req_ret" /\ ~Retryable(r.status)) =>
          /\ trace[Len(trace)].op \in {"GET", "POST"}
          /\ trace[Len(trace)].n = r.att
          /\ ~ENABLED Request

\* statuses 503, 503, 200: sleeps of 1 s and 2 s, then the 200 is returned
C7_Witness ==
    /\ pc = "req_ret"
    /\ attempts = 3
    /\ last_exc = 0
    /\ r.status = 200
    /\ trace = <<EvSt("GET", 1, 503), Ev("sleep", 1), EvSt("GET", 2, 503),
                 Ev("sleep", 2), EvSt("GET", 3, 200)>>

\* --- claim C8 ---------------------------------------------------------------
\* C8: a resolve makes at most two requests and searches at most one
\* response for an embedded URL; when the second request was made, the first
\* response (a non-media wrapper) is closed, and what is returned is the
\* second response with final_url the URL taken from the first.
C8_OneHop ==
    /\ calls <= 2
    /\ inspected <= 1
    /\ calls = 2 =>
          /\ inspected = 1
          /\ r1 # NoResp
          /\ r1.closed
          /\ ~_looks_like_media_contenttype(r1.ctype)
    /\ (pc = "validate" /\ calls = 2) =>
          /\ final_url = ExtractUrl(r1.body, idx)
          /\ final_url # NoUrl
          /\ r.url = final_url
          /\ ~r.closed

\* the second response is itself a wrapper holding a URL, and is returned
C8_Witness ==
    /\ pc = "validate"
    /\ calls = 2
    /\ r.status = 200
    /\ r.ctype = "text/html"
    /\ r.body = "json"

\* --- claim C9 ---------------------------------------------------------------
ConvPcs == {"conv", "conv_run", "conv_unlink", "conv_replace", "conv_rm_src",
            "conv_ret"}
OriginalPresent == Exists(fs, dest) /\ fs[dest] = "media"

\* C9: while _ensure_h264_mp4 runs and when it has returned, the original
\* source file is gone only if the move of the temp file onto the final path
\* has succeeded.
C9_SourceKeptUntilSwap ==
    pc \in ConvPcs => (~OriginalPresent => swapped)

C11_SummaryAlways ==
    pc = "returned" => summary

\* --- claim C12 --------------------------------------------------------------
StrictlyAscending(s) == \A j, k \in 1..Len(s) : j < k => s[j] < s[k]

\* C12: when a run has ended its failed list is strictly ascending (so free
\* of duplicates) and within the run's work list; and the text retry_failed
\* makes of a non-empty failed list (586 refuses an empty one), given as the
\* selection of a new run over the same index, yields a work list of exactly
\* the failed positions.
C12_FailedListRoundTrip ==
    pc = "returned" =>
        /\ StrictlyAscending(failed_out)
        /\ SeqToSet(failed_out) \subseteq SeqToSet(work)
        /\ failed_out # <<>> =>
              /\ _parse_indices(RetryText(failed_out), Len(items)) = failed_out
              /\ BuildWork(items, RetryText(failed_out), limit) = failed_out

\* a run over all three items, of which the first and the third failed
C12_Witness ==
    /\ pc = "returned"
    /\ indices_text = <<>>
    /\ work = <<1, 2, 3>>
    /\ failed_out = <<1, 3>>
    /\ RetryText(failed_out) = <<"1", ",", "3">>

\* --- claim C13 --------------------------------------------------------------
\* the Content-Types of the table of lines 71-80
TableTypes == {"image/jpeg", "image/png", "image/heic", "image/heif",
               "video/mp4", "video/quicktime"}
default_ext == IF is_video THEN ".mp4" ELSE ".jpg"

\* C13: when the destination file is opened for a response whose
\* Content-Type matches no entry of the table and that has no
\* Content-Disposition filename extension, the file's extension is the
\* suffix of the final URL if that URL ends in one, and the caller's fallback
\* (.jpg or .mp4) only if it does not.
C13_UrlSuffixBeforeFallback ==
    (pc = "stream" /\ r.ctype \notin TableTypes /\ r.cd = "") =>
        dest.name = IF _ext_from_url(final_url) # ""
                    THEN _ext_from_url(final_url)
                    ELSE default_ext

\* --- claim C14 --------------------------------------------------------------
\* C14: at most one download worker runs at any time, and a running worker's
\* stop event is the one the controller holds, so the Stop button reaches it.
C14_SingleWorker ==
    /\ Cardinality(Running) <= 1
    /\ \A w \in Running : state.stop_event = w

\* --- claim C15 --------------------------------------------------------------
\* image/*, video/* or an octet-stream type
C15_IsMedia(ctype) ==
    ctype \in TableTypes \cup {"application/octet-stream"}
MediaFiles(f) == {p \in DOMAIN f : p.dir \in {"images", "videos"}}

\* C15: the download of an item starts writing its destination file only
\* from a resolved response with status < 400 and a media Content-Type; and
\* the step taken on a resolved response with status >= 400 or a non-media
\* Content-Type records the item as failed, writes a new debug file, and
\* leaves the media files as they were.
C15_MediaOnlyWhenValid ==
    [][/\ (pc' = "stream" /\ pc # "stream") =>
             /\ pc = "validate"
             /\ r.status < 400
             /\ C15_IsMedia(r.ctype)
             /\ Exists(fs', dest')
       /\ (pc = "validate" /\ pc' # pc
             /\ (r.status >= 400 \/ ~C15_IsMedia(r.ctype))) =>
             /\ pc' = "after_item"
             /\ failed_out' = Append(failed_out, idx)
             /\ fail' = fail + 1
             /\ \E p \in DOMAIN fs' \ DOMAIN fs : p.dir = "debug"
             /\ MediaFiles(fs') = MediaFiles(fs)
             /\ \A p \in MediaFiles(fs) : fs'[p] = fs[p]
      ]_vars

\* a wrapper page answered with 200 and text/html in which no URL was found:
\* the item failed, debug/response_1.html is there, no media file is
C15_Witness ==
    /\ pc = "after_item"
    /\ r.status = 200
    /\ r.ctype = "text/html"
    /\ failed_out = <<idx>>
    /\ Exists(fs, DebugPath(i, ".html", 0))
    /\ MediaFiles(fs) = {}

\* --- claim C16 --------------------------------------------------------------
\* C16: when a run that entered its loop has ended, every item that entered
\* processing is counted exactly once: ok + fail is the number of items
\* attempted, ok and fail are the numbers of positions counted as downloaded
\* and listed as failed, no position is in both, and the failed list holds
\* exactly the attempted positions that were not counted as downloaded.
C16_CountedExactlyOnce ==
    pc \in {"summary", "finally", "returned"} =>
        /\ ok + fail = Len(attempted)
        /\ ok = Cardinality(SeqToSet(downloaded))
        /\ fail = Len(failed_out)
        /\ fail = Cardinality(SeqToSet(failed_out))
        /\ SeqToSet(downloaded) \cap SeqToSet(failed_out) = {}
        /\ SeqToSet(failed_out) = SeqToSet(attempted) \ SeqToSet(downloaded)

\* three items attempted: the image 1 failed, the video 2 was downloaded and
\* left unconverted, the image 3 was downloaded
C16_Witness ==
    /\ pc = "returned"
    /\ attempted = <<1, 2, 3>>
    /\ failed_out = <<1>>
    /\ downloaded = <<2, 3>>
    /\ ok = 2 /\ fail = 1
    /\ Exists(fs, MediaPath("videos", 2, ".mp4"))
    /\ fs[MediaPath("videos", 2, ".mp4")] = "media"

\* --- claim C17 --------------------------------------------------------------
\* C17: when _ensure_h264_mp4 has returned for a video whose body was
\* streamed completely, the item is counted as downloaded and is not in the
\* failed list, whether the transcoder succeeded, was unavailable or failed;
\* and whenever it returned None the downloaded file is still at its
\* original path.
C17_TranscodeNeverFailsItem ==
    pc = "conv_ret" =>
        /\ idx \in SeqToSet(downloaded)
        /\ idx \notin SeqToSet(failed_out)
        /\ conv_res = "None" => OriginalPresent

\* --- claim C18 --------------------------------------------------------------
\* a selection text was given and names no position of the index
EmptySelection ==
    /\ html_exists
    /\ indices_text # <<>>
    /\ _parse_indices(indices_text, Len(items)) = <<>>

\* C18 as stated: a selection that parses to the empty list makes the work
\* list empty, so no request is sent and no media file is written.
C18_EmptySelectionIsEmpty ==
    (EmptySelection /\ pc # "start") =>
        /\ work = <<>>
        /\ requested = {}
        /\ MediaFiles(fs) = {}

\* C18 amended: a selection that parses to the empty list is treated as no
\* selection: the work list is every position of the index, or the first
\* limit positions when a limit is set.
C18_EmptySelectionIsNoSelection ==
    (EmptySelection /\ pc # "start") =>
        work = [k \in 1..(IF limit # 0 THEN Min(limit, Len(items))
                          ELSE Len(items)) |-> k]

\* the selection "0,9" on an index of three items, no limit: all three
\* positions were attempted
C18_Witness ==
    /\ pc = "returned"
    /\ indices_text = <<"0", ",", "9">>
    /\ Len(items) = 3
    /\ limit = 0
    /\ attempted = <<1, 2, 3>>
    /\ requested = {1, 2, 3}

\* --- claim C19 --------------------------------------------------------------
Reqs == {k \in 1..Len(trace) : trace[k].op \in {"GET", "POST"}}
\* the last request the call made: how its final attempt ended
LastReq == trace[CHOOSE k \in Reqs : \A j \in Reqs : j <= k]

\* C19: when _request_with_fallback has ended, it has raised only if its
\* final attempt ended in an exception, and then the exception raised is
\* that attempt's; and if the final attempt ended in a response (retryable
\* or not, whatever earlier attempts did), that response was returned.
C19_RaisesOnlyFinalException ==
    pc \in {"req_ret", "req_raise"} =>
        /\ pc = "req_raise" => (LastReq.st = 0 /\ last_exc = LastReq.n)
        /\ LastReq.st # 0 =>
              /\ pc = "req_ret"
              /\ r.status = LastReq.st
              /\ r.att = LastReq.n

\* --- claim C20 --------------------------------------------------------------
\* C20: in the record of a call of _request_with_fallback, a GET answered
\* with 403 or 405 is followed at once by the close of its response and a
\* POST of the same attempt, with no sleep in between; a GET answered with
\* any other status, or raising, is followed by no close and no POST; a
\* POST occurs nowhere else; and the POST's outcome decides what follows: a
\* sleep and the next attempt if it raised or was answered with a retryable
\* status, otherwise the return of the POST's response.
C20_PostFallback ==
    /\ \A k \in 1..Len(trace) :
          trace[k].op = "GET" =>
              IF trace[k].st \in {403, 405}
              THEN /\ k + 2 <= Len(trace)
                   /\ trace[k + 1] = Ev("close", trace[k].n)
                   /\ trace[k + 2].op = "POST"
                   /\ trace[k + 2].n = trace[k].n
              ELSE k < Len(trace) => trace[k + 1].op = "sleep"
    /\ \A k \in 1..Len(trace) :
          trace[k].op \in {"POST", "close"} =>
              /\ k > 1
              /\ trace[k - 1].op = IF trace[k].op = "POST" THEN "close"
                                   ELSE "GET"
              /\ trace[k - 1].n = trace[k].n
              /\ trace[k].op = "close" => trace[k - 1].st \in {403, 405}
    /\ \A k \in 1..Len(trace) :
          trace[k].op = "POST" =>
              IF trace[k].st = 0 \/ trace[k].st >= 500 \/ trace[k].st = 429
              THEN /\ k < Len(trace)
                   /\ trace[k + 1].op = "sleep"
              ELSE /\ k = Len(trace)
                   /\ pc = "req_ret"
                   /\ r.by = "POST"
                   /\ r.status = trace[k].st
                   /\ r.att = trace[k].n
                   /\ ~r.closed

\* the GET of attempt 1 is answered 403, its POST 503; after the sleep the
\* GET of attempt 2 is answered 405 and its POST 200, which is returned
C20_Witness ==
    /\ pc = "req_ret"
    /\ r.by = "POST"
    /\ trace = <<EvSt("GET", 1, 403), Ev("close", 1), EvSt("POST", 1, 503),
                 Ev("sleep", 1), EvSt("GET", 2, 405), Ev("close", 2),
                 EvSt("POST", 2, 200)>>

\* --- claim C23 --------------------------------------------------------------
Sleeps == {k \in 1..Len(trace) : trace[k].op = "sleep"}

\* C23: every backoff delay of a call of _request_with_fallback is followed
\* by another attempt: a call with attempts = N sleeps at most N-1 times,
\* and when it has returned or raised, the last thing it did was a request,
\* not a sleep.
C23_NoDelayAfterLastAttempt ==
    /\ Cardinality(Sleeps) <= LastAttempt - 1
    /\ pc \in {"req_ret", "req_raise"} => trace[Len(trace)].op # "sleep"

\* --- claim C21 --------------------------------------------------------------
C21_IsString(v) == v \in {"str", "empty"}
\* the first of the keys, in priority order, whose value is a string
C21_FirstStringKey(d) ==
    CHOOSE k \in 1..Len(Keys) :
        /\ C21_IsString(d.vals[k])
        /\ \A j \in 1..(k - 1) : ~C21_IsString(d.vals[j])

\* C21: when the wrapper body is a JSON object, the URL followed is the
\* value of the first of the keys url, signedUrl, download_url, mediaUrl
\* whose value is a string, keys with an absent or non-string value being
\* skipped; and such a JSON match is taken whatever the two text patterns
\* would find.
C21_FirstStringValue ==
    (/\ pc = "extract_done"
     /\ doc.shape = "dict"
     /\ \E k \in 1..Len(Keys) : C21_IsString(doc.vals[k])) =>
        new_url = Found("json", C21_FirstStringKey(doc),
                        doc.vals[C21_FirstStringKey(doc)])

\* --- claim C22 --------------------------------------------------------------
BothRunnable == ffmpeg = "ok" /\ ffprobe = "ok"

\* C22: the transcoder counts as available only if both tools are found and
\* each answers the version check: _ensure_ffmpeg_available has returned
\* True only in that case, and _ensure_h264_mp4, when either tool is missing
\* or does not run, has returned None with every file as it was on entry.
C22_AvailableNeedsBothTools ==
    /\ avail = "True" => BothRunnable
    /\ (pc = "conv_ret" /\ ~BothRunnable) =>
          /\ conv_res = "None"
          /\ fs = fs_in
====
